---- MODULE Spec2Model ----
(***************************************************************************)
(* A model of the graph library: the AdjacencyMap storage                  *)
(* (src/src/adjacency_map.rs), the A* shortest-path engine                 *)
(* (src/src/shortest_path.rs), breadth-first traversal                     *)
(* (src/src/traversal.rs) and Prim's minimum spanning tree                 *)
(* (src/src/minimum_spanning_tree.rs).                                     *)
(*                                                                         *)
(* A behaviour builds a graph with add_node / add_arc / add_edge and then  *)
(* runs one algorithm call on it, one loop iteration per step.  The graph  *)
(* is read-only while a call runs.                                         *)
(***************************************************************************)
EXTENDS Integers, Sequences, FiniteSets, Bags, TLC

\* ---------------------------------------------------------------- bounds
\* The node identifiers the callers use.
NodeIds == {1, 2, 3}
\* Arc weights are 0..MaxWeight.
MaxWeight == 1
\* A graph is built with at most MaxArcs add_arc calls' worth of arcs, or
\* with at most MaxEdges add_edge calls' worth (two arcs each).
MaxArcs == 3
MaxEdges == 3
\* The grids of the shortest-path runs are GridSize[1] wide and GridSize[2]
\* high, with at most MaxBlocked blocked cells.
GridSize == <<3, 2>>
MaxBlocked == 2
\* The storage runs call add_node at most MaxRecords times (an id may be
\* added again) and store at most MaxStored arcs.
MaxRecords == 3
MaxStored == 2
\* Between two a_star calls at most MaxRaised arc weights are raised.
MaxRaised == 1
\* A caller-supplied heuristic estimates 0..MaxHeuristic.
MaxHeuristic == 1

Weights == 0..MaxWeight

\* ------------------------------------------------------------ Option<T>
None == <<>>
Some(v) == <<v>>

VARIABLES
    kind,       \* the Graph implementation of the run: "map" or "grid"
    grid,       \* Grid { width, height, data } of the shortest-path tests
    nodes,      \* AdjacencyMap.nodes : Vec<AdjacencyMapNode>
    map,        \* AdjacencyMap.map   : HashMap<NodeId, ListId>
    call,       \* the call that runs or failed: "none", "a_star", "bfs", "prims",
                \* or the mutator that failed ("add_arc", "add_edge", "index")
    pc,         \* "build", "run", "done", "panic" or "diverge"
    start,      \* the call's start node
    end,        \* a_star's end node
    heur,       \* a_star's heuristic (a descriptor of the fn pointer)
    dist_map,   \* a_star's HashMap<Node, PathNode>
    frontier,   \* the call's frontier: a_star's BinaryHeap<PathNode> (a bag),
                \* breadth_first_search's VecDeque<BfsNode> (a sequence)
    result,     \* a_star's return value : Option<Vec<Node>>
    visited,    \* breadth_first_search's HashSet<NodeId>
    visit_order,\* breadth_first_search's Vec<BfsNode>
    apply_log,  \* history: each call of the visitor, what it saw and returned
    expanded,   \* history: the visit-order indices whose edges were read
    edges,      \* prims' Vec<Edge>, its return value
    connected_nodes, \* prims' HashSet<NodeId>
    active_edges,    \* prims' BinaryHeap<EdgeContainer>, as a bag
    written,    \* history: <<from, to>> |-> the weight of the latest add_arc
                \* or add_edge that stored the arc from -> to
    earlier     \* history: the a_star call that returned before this one

a_star_vars == <<end, heur, dist_map, result>>

bfs_vars == <<visited, visit_order, apply_log, expanded>>

prims_vars == <<edges, connected_nodes, active_edges>>

graph_vars == <<kind, grid, nodes, map>>

vars == <<graph_vars, written, earlier, call, pc, start, frontier,
          a_star_vars, bfs_vars, prims_vars>>

\* ======================================================== AdjacencyMap

\* AdjacencyMap::add_node: push a record with no arcs and point the id at it.
add_node_nodes(ns, value) == Append(ns, [value |-> value, outgoing |-> <<>>])

\* A mutant of add_node_map: an id that is already mapped keeps its slot.
add_node_map_keeps_old(ns, m, node_id) == m @@ (node_id :> Len(ns))

\* HashMap::insert replaces the slot of an id that is already mapped.
add_node_map(ns, m, node_id) == (node_id :> Len(ns)) @@ m

\* A mutant of add_arc_nodes: an arc that is already stored keeps its weight.
add_arc_nodes_keeps_old(ns, m, from, to, weight) ==
    [ns EXCEPT ![m[from] + 1].outgoing = @ @@ (to :> weight)]

\* AdjacencyMap::add_arc on the node list; the caller has checked the lookup
\* self.map[from].  ListIds count from 0, TLA+ sequences from 1.
add_arc_nodes(ns, m, from, to, weight) ==
    [ns EXCEPT ![m[from] + 1].outgoing = (to :> weight) @@ @]

\* The lookup self.map[from] of add_arc fails for an id that was never added.
add_arc_panics(m, from) == from \notin DOMAIN m

\* The number of arcs the storage holds.
RECURSIVE arc_count(_)
arc_count(ns) ==
    IF ns = <<>> THEN 0
    ELSE Cardinality(DOMAIN Head(ns).outgoing) + arc_count(Tail(ns))

\* The arcs the storage holds for the ids of the mapping, with their weights.
stored_arcs(ns, m) ==
    [p \in UNION {{<<f, t>> : t \in DOMAIN ns[m[f] + 1].outgoing} : f \in DOMAIN m}
        |-> ns[m[p[1]] + 1].outgoing[p[2]]]

\* Graph::weight of &AdjacencyMap.
map_weight(from, to) ==
    IF from \in DOMAIN map
    THEN IF to \in DOMAIN nodes[map[from] + 1].outgoing
         THEN Some(nodes[map[from] + 1].outgoing[to])
         ELSE None
    ELSE None

\* Graph::neighbours of &AdjacencyMap indexes self.map[*node]: it fails for
\* an id that was never added.
map_neighbours_panics(node) == node \notin DOMAIN map

map_neighbours(node) == DOMAIN nodes[map[node] + 1].outgoing


\* ================================================================ Grid
\* The Graph implementation of the shortest-path tests.  A cell is <<x, y>>.

\* Grid::new: no cell is blocked.
grid_new(width, height) ==
    [width |-> width, height |-> height,
     data |-> [i \in 1..(width * height) |-> FALSE]]

\* Grid::get: a cell off the grid reads as blocked.
grid_get(g, index) ==
    LET x == index[1]
        y == index[2]
    IN  IF x >= g.width \/ y >= g.height
        THEN TRUE
        ELSE g.data[y * g.width + x + 1]

\* Grid::set on an in-bounds cell.
grid_set_data(g, index, value) ==
    [g EXCEPT !.data[index[2] * g.width + index[1] + 1] = value]

POSSIBLE_MOVES == << <<-1, 0>>, <<0, -1>>, <<1, 0>>, <<0, 1>> >>

\* Adjacent::next, run to the end: the in-bounds neighbours, in the order of
\* POSSIBLE_MOVES.
RECURSIVE adjacent(_, _, _)
adjacent(g, pos, i) ==
    IF i > 3 THEN <<>>
    ELSE LET x == pos[1] + POSSIBLE_MOVES[i + 1][1]
             y == pos[2] + POSSIBLE_MOVES[i + 1][2]
         IN  IF x >= 0 /\ y >= 0 /\ x < g.width /\ y < g.height
             THEN << <<x, y>> >> \o adjacent(g, pos, i + 1)
             ELSE adjacent(g, pos, i + 1)

\* Graph::weight of Grid.
GridMoveCost == 10

grid_weight(from, to) == IF grid_get(grid, to) THEN None ELSE Some(GridMoveCost)

Abs(n) == IF n < 0 THEN -n ELSE n

\* grid_heuristic of the tests (it reads to.0 in both terms).
grid_heuristic(from, to) ==
    (Abs(from[1] - to[1]) + Abs(from[2] - to[1])) * GridMoveCost

\* ====================================================== Graph (dispatch)
\* a_star is generic over the Graph implementation; a run uses one of them.

graph_weight(from, to) ==
    IF kind = "map" THEN map_weight(from, to) ELSE grid_weight(from, to)

graph_neighbours_panics(node) == kind = "map" /\ map_neighbours_panics(node)

\* Every order in which a set can be iterated.
RECURSIVE Orders(_)
Orders(S) ==
    IF S = {} THEN {<<>>}
    ELSE UNION {{<<x>> \o o : o \in Orders(S \ {x})} : x \in S}

\* The sequences graph.neighbours(node) can yield: a HashMap's keys come in
\* an unspecified order, Adjacent's in the order of POSSIBLE_MOVES.
graph_neighbours(node) ==
    IF kind = "map" THEN Orders(map_neighbours(node))
    ELSE {adjacent(grid, node, 0)}

\* The heuristic fn of the call: the zero heuristic (Graph::heuristic of
\* &AdjacencyMap), grid_heuristic, or a caller's table that estimates
\* heur.value for one node and zero for the others.
heuristic(from, to) ==
    CASE heur.name = "zero" -> 0
      [] heur.name = "grid" -> grid_heuristic(from, to)
      [] OTHER -> IF heur.node = Some(from) THEN heur.value ELSE 0

\* ============================================================== a_star

\* PathNode::new
PathNode_new(node, parent) ==
    [node |-> node, parent |-> parent, h_cost |-> 0, g_cost |-> 0]

\* PathNode::f_cost
f_cost(p) == p.h_cost + p.g_cost

\* Ord::cmp of the weights.
cmp(a, b) == IF a < b THEN "Less" ELSE IF a = b THEN "Equal" ELSE "Greater"

\* A mutant of PathNode_cmp: the ordering is not reversed (a max queue).
PathNode_cmp_unreversed(self, other) == cmp(f_cost(self), f_cost(other))

\* Ord for PathNode: reversed, so that the max-heap is a min queue.
PathNode_cmp(self, other) == cmp(f_cost(other), f_cost(self))

\* BinaryHeap::pop returns a greatest element; which one among equals is
\* unspecified.
frontier_pop(heap) ==
    {x \in BagToSet(heap) :
        \A y \in BagToSet(heap) : PathNode_cmp(y, x) # "Greater"}

RECURSIVE push_all(_, _)
push_all(heap, items) ==
    IF items = <<>> THEN heap
    ELSE push_all(heap (+) SetToBag({Head(items)}), Tail(items))

\* Lines 31-38: follow the parents back from the end node.  The lookup
\* dist_map[v] fails on a missing key; a chain that never reaches an entry
\* without a parent never returns (more than one lookup per key of the map).
RECURSIVE follow_path(_, _, _)
follow_path(active_val, dm, fuel) ==
    IF active_val.parent = None
    THEN [outcome |-> "done", path |-> <<active_val.node>>]
    ELSE IF active_val.parent[1] \notin DOMAIN dm
    THEN [outcome |-> "panic", path |-> <<active_val.node>>]
    ELSE IF fuel = 0
    THEN [outcome |-> "diverge", path |-> <<active_val.node>>]
    ELSE LET r == follow_path(dm[active_val.parent[1]], dm, fuel - 1)
         IN  [outcome |-> r.outcome, path |-> <<active_val.node>> \o r.path]

\* A mutant of a_star_records: a popped value replaces any recorded one.
a_star_records_always(active_val, dm) == TRUE

\* Lines 42-48: whether the popped value is recorded (and then expanded).
a_star_records(active_val, dm) ==
    IF active_val.node \in DOMAIN dm
    THEN f_cost(active_val) < f_cost(dm[active_val.node])
    ELSE TRUE

\* A mutant of a_star_visit: a pushed value names its own node as parent.
RECURSIVE a_star_visit_self_parent(_, _, _)
a_star_visit_self_parent(order, active_val, dm) ==
    IF order = <<>> THEN <<>>
    ELSE LET node == Head(order)
         IN  IF node \in DOMAIN dm
             THEN a_star_visit_self_parent(Tail(order), active_val, dm)
             ELSE LET move_cost == graph_weight(active_val.node, node)
                  IN  IF move_cost = None
                      THEN <<>>
                      ELSE << [node |-> node,
                               parent |-> Some(node),
                               h_cost |-> heuristic(node, end),
                               g_cost |-> active_val.g_cost + move_cost[1]] >>
                           \o a_star_visit_self_parent(Tail(order), active_val, dm)

\* A mutant of a_star_visit: a neighbour without a weight is pushed at no
\* cost instead of ending the visit.
RECURSIVE a_star_visit_unweighted(_, _, _)
a_star_visit_unweighted(order, active_val, dm) ==
    IF order = <<>> THEN <<>>
    ELSE LET node == Head(order)
         IN  IF node \in DOMAIN dm
             THEN a_star_visit_unweighted(Tail(order), active_val, dm)
             ELSE LET move_cost == graph_weight(active_val.node, node)
                  IN  << [node |-> node,
                          parent |-> Some(active_val.node),
                          h_cost |-> heuristic(node, end),
                          g_cost |-> IF move_cost = None
                                     THEN active_val.g_cost
                                     ELSE active_val.g_cost + move_cost[1]] >>
                      \o a_star_visit_unweighted(Tail(order), active_val, dm)

\* Lines 52-63: the values pushed while visiting the neighbours in `order`.
RECURSIVE a_star_visit(_, _, _)
a_star_visit(order, active_val, dm) ==
    IF order = <<>> THEN <<>>
    ELSE LET node == Head(order)
         IN  IF node \in DOMAIN dm
             THEN a_star_visit(Tail(order), active_val, dm)
             ELSE LET move_cost == graph_weight(active_val.node, node)
                  IN  IF move_cost = None
                      THEN <<>>
                      ELSE << [node |-> node,
                               parent |-> Some(active_val.node),
                               h_cost |-> heuristic(node, end),
                               g_cost |-> active_val.g_cost + move_cost[1]] >>
                           \o a_star_visit(Tail(order), active_val, dm)

\* =============================================================== Init

\* What start and end hold before a call: a value of the node type that is
\* no node of the graph (ids count from 1, a cell is a pair).
no_node == IF kind = "map" THEN 0 ELSE <<>>

\* A run has not started: the call's variables hold their empty values.
NoCall ==
    /\ call = "none"
    /\ pc = "build"
    /\ start = no_node
    /\ end = no_node
    /\ heur = [name |-> "zero", node |-> None, value |-> 0]
    /\ dist_map = <<>>
    /\ frontier = EmptyBag
    /\ result = None
    /\ visited = {}
    /\ visit_order = <<>>
    /\ apply_log = <<>>
    /\ expanded = {}
    /\ edges = <<>>
    /\ connected_nodes = {}
    /\ active_edges = EmptyBag
    /\ earlier = None

\* AdjacencyMap::new
InitMap ==
    /\ kind = "map"
    /\ grid = grid_new(0, 0)
    /\ nodes = <<>>
    /\ map = <<>>
    /\ written = <<>>
    /\ NoCall

\* Grid::new(width, height)
InitGrid ==
    /\ kind = "grid"
    /\ grid = grid_new(GridSize[1], GridSize[2])
    /\ nodes = <<>>
    /\ map = <<>>
    /\ written = <<>>
    /\ NoCall

\* The storage after a list of add_node(id, ()) and add_edge(a, b, w) calls.
RECURSIVE with_nodes(_, _, _)
with_nodes(ns, m, ids) ==
    IF ids = <<>> THEN [nodes |-> ns, map |-> m]
    ELSE with_nodes(add_node_nodes(ns, "unit"),
                    add_node_map(ns, m, Head(ids)), Tail(ids))

RECURSIVE with_edges(_, _, _)
with_edges(ns, m, es) ==
    IF es = <<>> THEN ns
    ELSE LET e == Head(es)
         IN  with_edges(
                 add_arc_nodes(add_arc_nodes(ns, m, e[1], e[2], e[3]),
                               m, e[2], e[1], e[3]),
                 m, Tail(es))

\* The graph of test_using_shortest_path.
ShortestPathFixtureEdges ==
    << <<1, 2, 7>>, <<1, 3, 9>>, <<1, 6, 14>>, <<2, 3, 10>>, <<2, 4, 15>>,
       <<3, 4, 11>>, <<3, 6, 2>>, <<4, 5, 6>>, <<5, 6, 14>> >>

ShortestPathFixture ==
    LET g == with_nodes(<<>>, <<>>, <<1, 2, 3, 4, 5, 6>>)
    IN  [nodes |-> with_edges(g.nodes, g.map, ShortestPathFixtureEdges),
         map |-> g.map]

InitShortestPathFixture ==
    /\ kind = "map"
    /\ grid = grid_new(0, 0)
    /\ nodes = ShortestPathFixture.nodes
    /\ map = ShortestPathFixture.map
    /\ written = stored_arcs(ShortestPathFixture.nodes, ShortestPathFixture.map)
    /\ NoCall

\* ============================================================ mutators

call_vars == <<start, frontier, a_star_vars, bfs_vars, prims_vars, earlier>>

add_node(node_id) ==
    /\ pc = "build"
    /\ kind = "map"
    /\ nodes' = add_node_nodes(nodes, "unit")
    /\ map' = add_node_map(nodes, map, node_id)
    /\ UNCHANGED <<kind, grid, written, call, pc, call_vars>>

\* A mutant of add_arc: an unknown `from` id writes to the first slot.
add_arc_default_slot(from, to, weight) ==
    /\ pc = "build"
    /\ kind = "map"
    /\ IF nodes = <<>>
       THEN /\ pc' = "panic"
            /\ call' = "add_arc"
            /\ UNCHANGED <<nodes, written>>
       ELSE /\ nodes' = [nodes EXCEPT
                   ![IF from \in DOMAIN map THEN map[from] + 1 ELSE 1].outgoing =
                       (to :> weight) @@ @]
            /\ written' = (<<from, to>> :> weight) @@ written
            /\ UNCHANGED <<pc, call>>
    /\ UNCHANGED <<kind, grid, map, call_vars>>

add_arc(from, to, weight) ==
    /\ pc = "build"
    /\ kind = "map"
    /\ IF add_arc_panics(map, from)
       THEN /\ pc' = "panic"
            /\ call' = "add_arc"
            /\ UNCHANGED <<nodes, written>>
       ELSE /\ nodes' = add_arc_nodes(nodes, map, from, to, weight)
            /\ written' = (<<from, to>> :> weight) @@ written
            /\ UNCHANGED <<pc, call>>
    /\ UNCHANGED <<kind, grid, map, call_vars>>

\* add_edge is add_arc(a, b) and then add_arc(b, a); the second call may fail
\* after the first has stored its arc.
add_edge(a, b, weight) ==
    /\ pc = "build"
    /\ kind = "map"
    /\ IF add_arc_panics(map, a)
       THEN /\ pc' = "panic"
            /\ call' = "add_edge"
            /\ UNCHANGED <<nodes, written>>
       ELSE LET first == add_arc_nodes(nodes, map, a, b, weight)
            IN  IF add_arc_panics(map, b)
                THEN /\ nodes' = first
                     /\ written' = (<<a, b>> :> weight) @@ written
                     /\ pc' = "panic"
                     /\ call' = "add_edge"
                ELSE /\ nodes' = add_arc_nodes(first, map, b, a, weight)
                     /\ written' = (<<b, a>> :> weight) @@ (<<a, b>> :> weight) @@ written
                     /\ UNCHANGED <<pc, call>>
    /\ UNCHANGED <<kind, grid, map, call_vars>>

\* Index<NodeId>: self.map[*index] fails for an id that was never added.
index_panics(m, index) == index \notin DOMAIN m

\* &graph[index]: the lookup returns a reference, the storage is not changed.
Index_index(i) ==
    /\ pc = "build"
    /\ kind = "map"
    /\ IF index_panics(map, i)
       THEN /\ pc' = "panic"
            /\ call' = "index"
       ELSE UNCHANGED <<pc, call>>
    /\ UNCHANGED <<kind, grid, nodes, map, written, call_vars>>

GridCells == {<<x, y>> : x \in 0..(GridSize[1] - 1), y \in 0..(GridSize[2] - 1)}

blocked_count(g) == Cardinality({i \in DOMAIN g.data : g.data[i]})

\* grid.set(&cell, true), as the tests block cells.
grid_set(index) ==
    /\ pc = "build"
    /\ kind = "grid"
    /\ ~grid_get(grid, index)
    /\ grid' = grid_set_data(grid, index, TRUE)
    /\ UNCHANGED <<kind, nodes, map, written, call, pc, call_vars>>

\* ======================================================== a_star (run)

\* Lines 22-25: the empty dist_map and the frontier holding the start node.
a_star_start(s, e, h) ==
    /\ pc = "build"
    /\ call' = "a_star"
    /\ pc' = "run"
    /\ start' = s
    /\ end' = e
    /\ heur' = h
    /\ dist_map' = <<>>
    /\ frontier' = SetToBag({PathNode_new(s, None)})
    /\ result' = None
    /\ UNCHANGED <<graph_vars, written, earlier, bfs_vars, prims_vars>>

\* One iteration of the while loop (lines 27-64) for a popped value.
a_star_step ==
    /\ call = "a_star"
    /\ pc = "run"
    /\ \E active_val \in frontier_pop(frontier) :
        LET rest == frontier (-) SetToBag({active_val})
            dm == (active_val.node :> active_val) @@ dist_map
        IN  IF active_val.node = end
            THEN LET r == follow_path(active_val, dist_map,
                                      Cardinality(DOMAIN dist_map))
                 IN  /\ pc' = r.outcome
                     /\ result' = IF r.outcome = "done" THEN Some(r.path) ELSE None
                     /\ frontier' = rest
                     /\ UNCHANGED dist_map
            ELSE IF ~a_star_records(active_val, dist_map)
            THEN /\ frontier' = rest
                 /\ UNCHANGED <<pc, dist_map, result>>
            ELSE IF graph_neighbours_panics(active_val.node)
            THEN /\ pc' = "panic"
                 /\ dist_map' = dm
                 /\ frontier' = rest
                 /\ UNCHANGED result
            ELSE \E order \in graph_neighbours(active_val.node) :
                 /\ frontier' = push_all(rest, a_star_visit(order, active_val, dm))
                 /\ dist_map' = dm
                 /\ UNCHANGED <<pc, result>>
    /\ UNCHANGED <<graph_vars, written, earlier, call, start, end, heur, bfs_vars, prims_vars>>

\* Lines 64-67: the frontier is empty, no path was found.
a_star_exhausted ==
    /\ call = "a_star"
    /\ pc = "run"
    /\ frontier = EmptyBag
    /\ pc' = "done"
    /\ result' = None
    /\ UNCHANGED <<graph_vars, written, earlier, call, start, end, heur, dist_map, frontier, bfs_vars, prims_vars>>

\* =================================== Graph (lib.rs) of &AdjacencyMap
\* breadth_first_search and prims use the Graph trait of lib.rs (target,
\* weight, outgoing_edges).  Its implementation for &AdjacencyMap: an Edge is
\* the pair <<source, target>>; target is absent for an id that was never
\* added; outgoing_edges looks the node up as Graph::neighbours does.

map_outgoing_edges_panics(node) == node \notin DOMAIN map

map_outgoing_edges(node) ==
    {<<node, t>> : t \in DOMAIN nodes[map[node] + 1].outgoing}

map_target(edge) == IF edge[2] \in DOMAIN map THEN Some(edge[2]) ELSE None

map_edge_weight(edge) == nodes[map[edge[1]] + 1].outgoing[edge[2]]

\* ================================================ breadth_first_search

\* A mutant of bfs_continues: the visitor's answer is ignored.
bfs_continues_always(ret) == TRUE

\* Line 37: the traversal goes on when the visitor returns true.
bfs_continues(ret) == ret

\* Lines 39-43: the targets of the edges in `order` that resolve and were not
\* in `visited` are inserted into it and pushed to the back of the frontier.
RECURSIVE bfs_visit(_, _, _, _)
bfs_visit(order, node_id, vis, fr) ==
    IF order = <<>> THEN [visited |-> vis, frontier |-> fr]
    ELSE LET target == map_target(Head(order))
         IN  IF target = None
             THEN bfs_visit(Tail(order), node_id, vis, fr)
             ELSE IF target[1] \in vis
             THEN bfs_visit(Tail(order), node_id, vis, fr)
             ELSE bfs_visit(Tail(order), node_id, vis \cup {target[1]},
                      Append(fr, [value |-> target[1], parent |-> node_id]))

\* Lines 28-32: the empty visited set and visit order, the start node queued.
bfs_start(s) ==
    /\ pc = "build"
    /\ kind = "map"
    /\ call' = "bfs"
    /\ pc' = "run"
    /\ start' = s
    /\ visited' = {}
    /\ visit_order' = <<>>
    /\ frontier' = <<[value |-> s, parent |-> 0]>>
    /\ apply_log' = <<>>
    /\ expanded' = {}
    /\ UNCHANGED <<graph_vars, written, earlier, a_star_vars, prims_vars>>

\* One iteration of the while loop (lines 33-45); the visitor answers
\* either way.
bfs_step ==
    /\ call = "bfs"
    /\ pc = "run"
    /\ frontier # <<>>
    /\ LET node == Head(frontier)
           node_id == Len(visit_order)
           order_so_far == Append(visit_order, node)
       IN  \E ret \in BOOLEAN :
           /\ visit_order' = order_so_far
           /\ apply_log' = Append(apply_log, [seen |-> order_so_far, ret |-> ret])
           /\ IF ~bfs_continues(ret)
              THEN /\ pc' = "done"
                   /\ frontier' = Tail(frontier)
                   /\ UNCHANGED <<visited, expanded>>
              ELSE IF map_outgoing_edges_panics(node.value)
              THEN /\ pc' = "panic"
                   /\ frontier' = Tail(frontier)
                   /\ UNCHANGED <<visited, expanded>>
              ELSE \E order \in Orders(map_outgoing_edges(node.value)) :
                   LET r == bfs_visit(order, node_id, visited, Tail(frontier))
                   IN  /\ visited' = r.visited
                       /\ frontier' = r.frontier
                       /\ expanded' = expanded \cup {node_id}
                       /\ UNCHANGED pc
    /\ UNCHANGED <<graph_vars, written, earlier, call, start, a_star_vars, prims_vars>>

\* Line 33: the frontier is empty, the traversal returns.
bfs_exhausted ==
    /\ call = "bfs"
    /\ pc = "run"
    /\ frontier = <<>>
    /\ pc' = "done"
    /\ UNCHANGED <<graph_vars, written, earlier, call, start, frontier, a_star_vars, bfs_vars, prims_vars>>

\* =============================================================== prims

EdgeContainer(edge) == [cost |-> map_edge_weight(edge), edge |-> edge]

\* A mutant of EdgeContainer_cmp: the ordering is not reversed (a max queue).
EdgeContainer_cmp_unreversed(self, other) == cmp(self.cost, other.cost)

\* Ord for EdgeContainer: reversed, so that the max-heap is a min queue.
EdgeContainer_cmp(self, other) == cmp(other.cost, self.cost)

\* BinaryHeap::pop on active_edges.
active_edges_pop(heap) ==
    {x \in BagToSet(heap) :
        \A y \in BagToSet(heap) : EdgeContainer_cmp(y, x) # "Greater"}

\* A mutant of connected_insert: the node always counts as new.
connected_insert_always(connected, node) == TRUE

\* Line 29: HashSet::insert returns whether the node was not yet in the set.
connected_insert(connected, node) == node \notin connected

\* Lines 36-44: the containers of the edges of current_node whose target
\* resolves and is not connected.
prims_new_edges(current_node, connected) ==
    {EdgeContainer(e) : e \in
        {e \in map_outgoing_edges(current_node) :
            /\ map_target(e) # None
            /\ map_target(e)[1] \notin connected}}

\* Lines 15-22: the start node is connected and its edges are active.
prims_start(s) ==
    /\ pc = "build"
    /\ kind = "map"
    /\ call' = "prims"
    /\ start' = s
    /\ edges' = <<>>
    /\ connected_nodes' = {s}
    /\ IF map_outgoing_edges_panics(s)
       THEN /\ pc' = "panic"
            /\ active_edges' = EmptyBag
       ELSE /\ pc' = "run"
            /\ active_edges' =
                   SetToBag({EdgeContainer(e) : e \in map_outgoing_edges(s)})
    /\ UNCHANGED <<graph_vars, written, earlier, frontier, a_star_vars, bfs_vars>>

\* One iteration of the while loop (lines 24-45) for a popped edge.
prims_step ==
    /\ call = "prims"
    /\ pc = "run"
    /\ \E edge \in active_edges_pop(active_edges) :
        LET rest == active_edges (-) SetToBag({edge})
            current_node == map_target(edge.edge)
        IN  IF current_node = None
            THEN /\ active_edges' = rest
                 /\ UNCHANGED <<edges, connected_nodes>>
            ELSE IF ~connected_insert(connected_nodes, current_node[1])
            THEN /\ active_edges' = rest
                 /\ UNCHANGED <<edges, connected_nodes>>
            ELSE /\ connected_nodes' = connected_nodes \cup {current_node[1]}
                 /\ edges' = Append(edges, edge.edge)
                 /\ active_edges' =
                        rest (+) SetToBag(prims_new_edges(current_node[1],
                                     connected_nodes \cup {current_node[1]}))
    /\ UNCHANGED <<graph_vars, written, earlier, call, pc, start, frontier, a_star_vars, bfs_vars>>

\* Lines 24 and 47: no active edge is left, the edges are returned.
prims_exhausted ==
    /\ call = "prims"
    /\ pc = "run"
    /\ active_edges = EmptyBag
    /\ pc' = "done"
    /\ UNCHANGED <<graph_vars, written, earlier, call, start, frontier, a_star_vars, bfs_vars, prims_vars>>

\* ============================================== building the graph
\* The environment of the algorithm runs: node ids are added once each, in
\* increasing order; arcs and edges leave nodes that exist (an arc may point
\* to an id that was never added); add_edge is called while every arc stored
\* so far has its reverse arc, so that the undirected graphs grow to MaxEdges
\* edges and the others to MaxArcs arcs.

undirected ==
    \A from \in DOMAIN map :
        \A to \in map_neighbours(from) :
            /\ to \in DOMAIN map
            /\ map_weight(to, from) = map_weight(from, to)

build_node ==
    \E id \in NodeIds :
        /\ id \notin DOMAIN map
        /\ \A j \in NodeIds : j < id => j \in DOMAIN map
        /\ add_node(id)

build_arc ==
    /\ arc_count(nodes) < MaxArcs
    /\ \E from \in DOMAIN map, to \in NodeIds, w \in Weights : add_arc(from, to, w)

build_edge ==
    /\ arc_count(nodes) + 2 <= 2 * MaxEdges
    /\ undirected
    /\ \E a \in DOMAIN map, b \in DOMAIN map, w \in Weights : add_edge(a, b, w)

build_grid ==
    /\ blocked_count(grid) < MaxBlocked
    /\ \E c \in GridCells : grid_set(c)

Build == build_node \/ build_arc \/ build_edge

\* The start node of the runs on an AdjacencyMap: the first id, as in the
\* tests (the ids are interchangeable).
MapStarts == {1}

\* ===================================================== a_star (inputs)
ZeroHeuristic == [name |-> "zero", node |-> None, value |-> 0]

GridHeuristic == [name |-> "grid", node |-> None, value |-> 0]

\* a_star never evaluates the heuristic at the start node.
TableHeuristics ==
    {[name |-> "table", node |-> Some(n), value |-> v] :
        n \in (NodeIds \ MapStarts), v \in 1..MaxHeuristic}

a_star_call ==
    IF kind = "map"
    THEN \E s \in MapStarts, e \in NodeIds \cup DOMAIN map,
            h \in {ZeroHeuristic} \cup TableHeuristics :
            a_star_start(s, e, h)
    ELSE \E s \in GridCells, e \in GridCells \cup {<<GridSize[1], 0>>},
            h \in {ZeroHeuristic, GridHeuristic} :
            a_star_start(s, e, h)

a_star == a_star_step \/ a_star_exhausted

NextAStar == Build \/ build_grid \/ a_star_call \/ a_star

InitAStar == InitMap \/ InitGrid \/ InitShortestPathFixture

SpecAStar == InitAStar /\ [][NextAStar]_vars

\* ================================== breadth_first_search (inputs)
RECURSIVE with_arcs(_, _, _)
with_arcs(ns, m, as) ==
    IF as = <<>> THEN ns
    ELSE LET a == Head(as)
         IN  with_arcs(add_arc_nodes(ns, m, a[1], a[2], a[3]), m, Tail(as))

\* The graph of traversal.rs basic_test: [1] -> [2] -> [3] -> [4] -> [5].
BfsFixtureArcs == << <<1, 2, 0>>, <<2, 3, 0>>, <<3, 4, 0>>, <<4, 5, 0>> >>

BfsFixture ==
    LET g == with_nodes(<<>>, <<>>, <<1, 2, 3, 4, 5>>)
    IN  [nodes |-> with_arcs(g.nodes, g.map, BfsFixtureArcs), map |-> g.map]

InitBfsFixture ==
    /\ kind = "map"
    /\ grid = grid_new(0, 0)
    /\ nodes = BfsFixture.nodes
    /\ map = BfsFixture.map
    /\ written = stored_arcs(BfsFixture.nodes, BfsFixture.map)
    /\ NoCall

bfs_call == \E s \in MapStarts : bfs_start(s)

breadth_first_search == bfs_step \/ bfs_exhausted

NextBfs == Build \/ bfs_call \/ breadth_first_search

InitBfs == InitMap \/ InitBfsFixture

SpecBfs == InitBfs /\ [][NextBfs]_vars

\* ================================================= prims (inputs)
\* The graph of minimum_spanning_tree.rs test_simple.
PrimsFixtureEdges == << <<1, 2, 2>>, <<1, 4, 1>>, <<2, 4, 2>>, <<3, 4, 3>> >>

PrimsFixture ==
    LET g == with_nodes(<<>>, <<>>, <<1, 2, 3, 4>>)
    IN  [nodes |-> with_edges(g.nodes, g.map, PrimsFixtureEdges), map |-> g.map]

InitPrimsFixture ==
    /\ kind = "map"
    /\ grid = grid_new(0, 0)
    /\ nodes = PrimsFixture.nodes
    /\ map = PrimsFixture.map
    /\ written = stored_arcs(PrimsFixture.nodes, PrimsFixture.map)
    /\ NoCall

prims_call == \E s \in MapStarts : prims_start(s)

prims == prims_step \/ prims_exhausted

NextPrims == Build \/ prims_call \/ prims

InitPrims == InitMap \/ InitPrimsFixture

SpecPrims == InitPrims /\ [][NextPrims]_vars

\* ============================================= AdjacencyMap (inputs)
\* Any caller of the storage: ids are added in any order and again, arcs
\* and edges are stored between any ids, known or not, any id is looked up.
store_node ==
    /\ Len(nodes) < MaxRecords
    /\ \E id \in NodeIds : add_node(id)

store_arc ==
    /\ arc_count(nodes) < MaxStored
    /\ \E from \in NodeIds, to \in NodeIds, w \in Weights : add_arc(from, to, w)

store_edge ==
    /\ arc_count(nodes) + 2 <= MaxStored
    /\ \E a \in NodeIds, b \in NodeIds, w \in Weights : add_edge(a, b, w)

store_index == \E i \in NodeIds : Index_index(i)

Next == store_node \/ store_arc \/ store_edge \/ store_index

Init == InitMap

Spec == Init /\ [][Next]_vars

\* ============================================ a_star, called twice
\* A caller runs a_star with the zero heuristic, raises arc weights with
\* add_arc once the call has returned a path, and runs the same call again.

\* A call from a node to itself returns the node alone, at cost 0, whatever
\* the weights are: the calls compared are those between two nodes.
a_star_zero_call ==
    /\ kind = "map"
    /\ earlier = None
    /\ \E s \in MapStarts, e \in DOMAIN map \ MapStarts :
          a_star_start(s, e, ZeroHeuristic)

\* The call has returned a path; the caller keeps it and owns the graph again.
a_star_returns ==
    /\ call = "a_star"
    /\ pc = "done"
    /\ result # None
    /\ earlier = None
    /\ earlier' = Some([start |-> start, end |-> end, path |-> result[1],
                        nodes |-> nodes, map |-> map])
    /\ call' = "none"
    /\ pc' = "build"
    /\ start' = no_node
    /\ end' = no_node
    /\ heur' = ZeroHeuristic
    /\ dist_map' = <<>>
    /\ frontier' = EmptyBag
    /\ result' = None
    /\ UNCHANGED <<graph_vars, written, bfs_vars, prims_vars>>

\* The arcs whose weight differs from the graph of the earlier call.
raised_arcs ==
    {p \in DOMAIN stored_arcs(nodes, map) :
        stored_arcs(nodes, map)[p] # stored_arcs(earlier[1].nodes, earlier[1].map)[p]}

raise_arc ==
    /\ earlier # None
    /\ Cardinality(raised_arcs) < MaxRaised
    /\ \E p \in DOMAIN stored_arcs(nodes, map), w \in Weights :
          /\ w > stored_arcs(nodes, map)[p]
          /\ add_arc(p[1], p[2], w)

a_star_repeat ==
    /\ earlier # None
    /\ a_star_start(earlier[1].start, earlier[1].end, ZeroHeuristic)

\* The first graph is built arc by arc (an edge is two arcs).
build_first == earlier = None /\ (build_node \/ build_arc)

NextAStarTwice ==
    \/ build_first \/ a_star_zero_call \/ a_star
    \/ a_star_returns \/ raise_arc \/ a_star_repeat

SpecAStarTwice == InitMap /\ [][NextAStarTwice]_vars

\* ======================================== the three algorithms, fairly
\* The loop iteration of the call that runs.
iteration == a_star \/ breadth_first_search \/ prims

NextCalls ==
    \/ Build \/ build_grid
    \/ a_star_call \/ bfs_call \/ prims_call
    \/ iteration

InitCalls == InitMap \/ InitGrid

\* Every loop iteration changes one of these.
loop_vars == <<pc, frontier, visit_order, active_edges>>

\* A call is a sequential loop: once started, its next iteration is taken.
SpecCalls == InitCalls /\ [][NextCalls]_vars /\ WF_loop_vars(iteration)

\* ---------------------------------------------------------------------
\* Properties of a_star
\* ---------------------------------------------------------------------

\* The nodes a run can meet.
Universe ==
    IF kind = "map" THEN NodeIds \cup DOMAIN map ELSE GridCells \cup {end}

Range(f) == {f[i] : i \in DOMAIN f}

\* A traversable edge y -> x: the graph yields x among the neighbours of y
\* and reports a weight for it.
has_edge(y, x) ==
    /\ graph_weight(y, x) # None
    /\ IF kind = "map" THEN TRUE ELSE x \in Range(adjacent(grid, y, 0))

SetMin(S) == CHOOSE m \in S : \A n \in S : m <= n

\* The costs of the simple paths from `from` to `to` that avoid `seen`.
RECURSIVE path_costs(_, _, _)
path_costs(from, to, seen) ==
    IF from = to THEN {0}
    ELSE UNION {{graph_weight(from, x)[1] + c : c \in path_costs(x, to, seen \cup {x})} :
                x \in {u \in Universe \ seen : has_edge(from, u)}}

reachable(from, to) == path_costs(from, to, {from}) # {}

min_cost(from, to) == SetMin(path_costs(from, to, {from}))

\* The sum of the edge weights of a path given end-first.
RECURSIVE path_cost(_)
path_cost(p) ==
    IF Len(p) < 2 THEN 0
    ELSE graph_weight(p[2], p[1])[1] + path_cost(Tail(p))

\* The heuristic never overestimates the remaining cost to the end node.
admissible ==
    \A n \in Universe :
        reachable(n, end) => heuristic(n, end) <= min_cost(n, end)

a_star_ended == call = "a_star" /\ pc \in {"done", "panic", "diverge"}

a_star_returned == call = "a_star" /\ pc = "done"

\* C1: on every graph, for every admissible heuristic and every tie-break
\* order, when the end node is reachable from the start node a_star returns
\* a path of minimum total weight.
C1_AStarOptimal ==
    (a_star_ended /\ reachable(start, end) /\ admissible)
        => /\ pc = "done"
           /\ result # None
           /\ path_cost(result[1]) = min_cost(start, end)

\* No stored arc points to an id that was never added (as when the graph is
\* built with add_node and add_edge alone).
no_dangling_arc ==
    \A from \in DOMAIN map : map_neighbours(from) \subseteq DOMAIN map

on_shortest_path_fixture ==
    /\ kind = "map"
    /\ nodes = ShortestPathFixture.nodes
    /\ map = ShortestPathFixture.map

\* C2: with the zero heuristic a_star is Dijkstra's algorithm: on an
\* AdjacencyMap without dangling arcs, whenever the end node is reachable the
\* call returns a path of minimum total weight, whatever the tie-break order;
\* on the fixture of test_using_shortest_path the call from 1 to 5 returns
\* exactly [5, 6, 3, 1].
C2_DijkstraOnAdjacencyMap ==
    /\ (a_star_ended /\ kind = "map" /\ heur = ZeroHeuristic
            /\ no_dangling_arc /\ reachable(start, end))
        => /\ pc = "done"
           /\ result # None
           /\ path_cost(result[1]) = min_cost(start, end)
    /\ (a_star_ended /\ on_shortest_path_fixture /\ heur = ZeroHeuristic
            /\ start = 1 /\ end = 5)
        => result = Some(<<5, 6, 3, 1>>)

C2_Witness ==
    /\ a_star_returned
    /\ on_shortest_path_fixture
    /\ heur = ZeroHeuristic
    /\ start = 1
    /\ end = 5
    /\ result = Some(<<5, 6, 3, 1>>)

\* C3: a returned path starts with the end node, ends with the start node,
\* and each consecutive pair (x, y) of it is a traversable edge y -> x; a
\* call with start = end returns [start].
C3_PathWellFormed ==
    /\ (a_star_returned /\ result # None)
        => LET path == result[1]
           IN  /\ Len(path) >= 1
               /\ path[1] = end
               /\ path[Len(path)] = start
               /\ \A i \in 1..(Len(path) - 1) : has_edge(path[i + 1], path[i])
    /\ (a_star_ended /\ start = end) => result = Some(<<start>>)

C3_Witness ==
    /\ a_star_returned
    /\ result # None
    /\ Len(result[1]) >= 3
    /\ kind = "grid"

\* C4: a call from a node of the graph to an end node that no path of
\* traversable edges reaches (a node of the graph or not) returns None.
C4_NoPathIsNone ==
    (a_star_ended /\ ~reachable(start, end)
        /\ (kind = "map" => start \in DOMAIN map))
        => (pc = "done" /\ result = None)


\* ---------------------------------------------------------------------
\* Properties of breadth_first_search
\* ---------------------------------------------------------------------

\* An edge the traversal can follow: stored, with a target that resolves.
bfs_edge(y, x) ==
    /\ y \in DOMAIN map
    /\ x \in map_neighbours(y)
    /\ map_target(<<y, x>>) # None

\* The nodes within k hops of `from`.
RECURSIVE within_hops(_, _)
within_hops(from, k) ==
    IF k = 0 THEN {from}
    ELSE LET near == within_hops(from, k - 1)
         IN  near \cup {x \in DOMAIN map : \E y \in near : bfs_edge(y, x)}

\* The hop distance from `from` to a node it reaches.
hop_distance(from, n) ==
    CHOOSE k \in 0..Cardinality(DOMAIN map) :
        /\ n \in within_hops(from, k)
        /\ k > 0 => n \notin within_hops(from, k - 1)

bfs_called == call = "bfs"

on_bfs_fixture == nodes = BfsFixture.nodes /\ map = BfsFixture.map

\* Every node ever enqueued: the records, then the queue.
bfs_enqueued == visit_order \o frontier

\* C5: every node is enqueued at most once, and so recorded at most once,
\* also on a graph with a cycle that leads back to the start node.
C5_EnqueuedOnce ==
    bfs_called =>
        \A i \in DOMAIN bfs_enqueued, j \in DOMAIN bfs_enqueued :
            i # j => bfs_enqueued[i].value # bfs_enqueued[j].value

\* C6: the records are in non-decreasing hop distance from the start node;
\* on the chain 1 -> 2 -> 3 -> 4 -> 5 started at 1 the order is 1, 2, 3, 4, 5.
C6_LevelOrder ==
    bfs_called =>
        /\ \A i \in DOMAIN visit_order, j \in DOMAIN visit_order :
              i < j => hop_distance(start, visit_order[i].value)
                           <= hop_distance(start, visit_order[j].value)
        /\ (on_bfs_fixture /\ start = 1)
              => /\ \A i \in DOMAIN visit_order : visit_order[i].value = i
                 /\ (pc = "done" /\ \A k \in DOMAIN apply_log : apply_log[k].ret)
                       => Len(visit_order) = 5

\* The visitor has returned stop.
bfs_stopped == \E k \in DOMAIN apply_log : ~apply_log[k].ret

\* C7: the visitor is called once per record, with the visit order built so
\* far; once it returns stop on its k-th call the traversal has ended with
\* exactly k records, the edges of the k-th record were not read, and the
\* visitor is not called again.
C7_VisitorStops ==
    bfs_called =>
        /\ Len(apply_log) = Len(visit_order)
        /\ \A k \in DOMAIN apply_log :
              /\ apply_log[k].seen = SubSeq(visit_order, 1, k)
              /\ ~apply_log[k].ret =>
                    /\ pc = "done"
                    /\ k = Len(apply_log)
                    /\ Len(visit_order) = k
                    /\ (k - 1) \notin expanded
        /\ expanded \subseteq 0..(Len(visit_order) - 1)

C7_Witness ==
    /\ bfs_called
    /\ pc = "done"
    /\ Len(apply_log) = 2
    /\ ~apply_log[2].ret
    /\ frontier # <<>>
    /\ map_neighbours(visit_order[2].value) # {}

\* C8: the first record is the start node with parent 0; the parent index p
\* of every later record i is smaller than i, the graph has an edge from the
\* node at p to the node at i, and the node at p is strictly nearer to the
\* start node than the node at i.
C8_ParentLinks ==
    bfs_called =>
        /\ visit_order # <<>> => visit_order[1] = [value |-> start, parent |-> 0]
        /\ \A i \in 2..Len(visit_order) :
              LET p == visit_order[i].parent
              IN  /\ p < i - 1
                  /\ bfs_edge(visit_order[p + 1].value, visit_order[i].value)
                  /\ hop_distance(start, visit_order[p + 1].value)
                         < hop_distance(start, visit_order[i].value)


\* ---------------------------------------------------------------------
\* Properties of prims
\* ---------------------------------------------------------------------

prims_returned == call = "prims" /\ pc = "done"

\* The nodes reachable from the start node through edges that resolve.
prims_reachable == within_hops(start, Cardinality(DOMAIN map))

\* C9: the returned edges form a spanning tree of the set R of nodes
\* reachable from the start node through non-dangling edges: every node of R
\* but the start node is the target of exactly one edge, the start node of
\* none, every edge leaves a node connected before it was appended, and
\* there are |R| - 1 edges.
C9_SpanningTree ==
    (call = "prims" /\ start \in DOMAIN map) =>
        /\ pc # "panic"
        /\ pc = "done" =>
            /\ \A n \in prims_reachable \ {start} :
                  Cardinality({i \in DOMAIN edges : edges[i][2] = n}) = 1
            /\ \A i \in DOMAIN edges :
                  /\ edges[i][2] # start
                  /\ edges[i][2] \in prims_reachable
                  /\ bfs_edge(edges[i][1], edges[i][2])
                  /\ edges[i][1] \in {start} \cup {edges[j][2] : j \in 1..(i - 1)}
            /\ Len(edges) = Cardinality(prims_reachable) - 1

C9_Witness ==
    /\ prims_returned
    /\ Len(edges) = 2
    /\ arc_count(nodes) >= 3

RECURSIVE seq_weight(_)
seq_weight(es) ==
    IF es = <<>> THEN 0 ELSE map_edge_weight(Head(es)) + seq_weight(Tail(es))

\* The undirected edges of the component of the start node, as two-node sets.
component_edges ==
    {e \in SUBSET prims_reachable :
        /\ Cardinality(e) = 2
        /\ \E a \in e : \E b \in e \ {a} : bfs_edge(a, b)}

edge_weight(e) ==
    LET a == CHOOSE x \in e : TRUE
        b == CHOOSE x \in e : x # a
    IN  map_edge_weight(<<a, b>>)

RECURSIVE tree_weight(_)
tree_weight(t) ==
    IF t = {} THEN 0
    ELSE LET e == CHOOSE x \in t : TRUE
         IN  edge_weight(e) + tree_weight(t \ {e})

\* The nodes joined to `seen` by the edges of t.
RECURSIVE joined(_, _)
joined(seen, t) ==
    LET more == seen \cup UNION {e \in t : e \cap seen # {}}
    IN  IF more = seen THEN seen ELSE joined(more, t)

spanning_trees ==
    {t \in SUBSET component_edges :
        /\ Cardinality(t) = Cardinality(prims_reachable) - 1
        /\ joined({start}, t) = prims_reachable}

on_prims_fixture == nodes = PrimsFixture.nodes /\ map = PrimsFixture.map

\* C10: on an undirected graph the returned edges weigh no more than any
\* spanning tree of the component of the start node, whatever the tie-break
\* order; on the graph of test_simple started at 1 they weigh 6.
C10_MinimumSpanningTree ==
    (prims_returned /\ undirected /\ start \in DOMAIN map) =>
        /\ \A t \in spanning_trees : seq_weight(edges) <= tree_weight(t)
        /\ (on_prims_fixture /\ start = 1) => seq_weight(edges) = 6

C10_Witness ==
    /\ prims_returned
    /\ undirected
    /\ Cardinality(spanning_trees) >= 3
    /\ \E t \in spanning_trees : seq_weight(edges) < tree_weight(t)

\* ---------------------------------------------------------------------
\* Dangling arcs in a_star
\* ---------------------------------------------------------------------

\* C11: a_star from a node of an AdjacencyMap never fails on a lookup of a
\* node that was never added: an arc to such a node is skipped, so the call
\* does not panic and a returned path holds nodes of the graph only.
C11_DanglingArcSkipped ==
    (call = "a_star" /\ kind = "map" /\ start \in DOMAIN map)
        => /\ pc # "panic"
           /\ result # None => Range(result[1]) \subseteq DOMAIN map

\* ---------------------------------------------------------------------
\* Properties of the AdjacencyMap storage
\* ---------------------------------------------------------------------

\* Every id was added once and no call has failed.
distinct_ids == Len(nodes) = Cardinality(DOMAIN map)

written_from(f) == {t \in NodeIds : <<f, t>> \in DOMAIN written}

\* C12: after add_node calls with distinct ids and add_arc / add_edge calls
\* whose source nodes exist, weight(f, t) is the weight of the latest call
\* that stored the arc f -> t and absent when there was none, and
\* neighbours(f) is exactly the set of t with such a call; so add_edge(a, b,
\* w) leaves weight(a, b) = weight(b, a) = w and no call changes the arcs of
\* another source node.
C12_WeightIsLatestWrite ==
    (call = "none" /\ kind = "map" /\ distinct_ids) =>
        /\ \A f \in NodeIds : \A t \in NodeIds :
              map_weight(f, t) = IF <<f, t>> \in DOMAIN written
                                 THEN Some(written[<<f, t>>])
                                 ELSE None
        /\ \A f \in DOMAIN map : map_neighbours(f) = written_from(f)

C12_Witness ==
    /\ call = "none"
    /\ kind = "map"
    /\ distinct_ids
    /\ Cardinality(DOMAIN map) >= 2
    /\ \E a \in DOMAIN map : \E b \in DOMAIN map :
          /\ a # b
          /\ map_weight(a, b) # None
          /\ map_weight(b, a) # None
          /\ map_weight(a, b) # map_weight(b, a)

\* The arcs a step stored: the pairs whose latest write is new.
stored_by_step ==
    {p \in DOMAIN written' : p \notin DOMAIN written \/ written'[p] # written[p]}

\* C13: add_arc with a `from` id that was never added fails and stores
\* nothing: every arc a step stores leaves an id that was mapped before the
\* step, and a failed add_arc or indexed lookup leaves the node list and the
\* id-to-slot mapping (hence every outgoing-arc map) as they were.
C13_FailedLookupKeepsStorage ==
    [][/\ \A p \in stored_by_step : p[1] \in DOMAIN map
       /\ (pc' = "panic" /\ call' \in {"add_arc", "index"})
            => (nodes' = nodes /\ map' = map)]_vars

C13_Witness ==
    /\ pc = "panic"
    /\ call = "add_arc"
    /\ arc_count(nodes) >= 1
    /\ Cardinality(DOMAIN map) < Cardinality(NodeIds)

\* The steps of add_node: the only ones that lengthen the node list.
is_add_node_step == kind = "map" /\ Len(nodes') = Len(nodes) + 1

\* C18: add_node appends one record to the node list and points the id at
\* it, also when the id exists already: the earlier records keep their
\* arcs, the id then has no neighbours and no weight to any node (its
\* earlier arcs are shadowed), and weight and neighbours of every other id,
\* arcs pointing to the re-added id included, are as before.
C18_ReAddShadows ==
    [][is_add_node_step =>
        \E id \in NodeIds :
            /\ SubSeq(nodes', 1, Len(nodes)) = nodes
            /\ DOMAIN map' = DOMAIN map \cup {id}
            /\ map'[id] = Len(nodes)
            /\ map_neighbours(id)' = {}
            /\ \A t \in NodeIds : map_weight(id, t)' = None
            /\ \A f \in DOMAIN map \ {id} :
                  /\ map'[f] = map[f]
                  /\ map_neighbours(f)' = map_neighbours(f)
                  /\ \A t \in NodeIds : map_weight(f, t)' = map_weight(f, t)]_vars

\* An id was added again after an arc was stored from it, and another node
\* holds an arc to it.
C18_Witness ==
    /\ call = "none"
    /\ kind = "map"
    /\ \E id \in DOMAIN map :
          /\ \E i \in 1..Len(nodes) :
                /\ i # map[id] + 1
                /\ \A f \in DOMAIN map : map[f] + 1 # i
                /\ DOMAIN nodes[i].outgoing # {}
          /\ map_neighbours(id) = {}
          /\ \E f \in DOMAIN map \ {id} : id \in map_neighbours(f)

\* C20: a failed add_edge leaves the storage as it was before the call; with
\* a added and b not, no arc a -> b is stored by the failed call.
C20_AddEdgeAtomic ==
    [][(pc' = "panic" /\ call' = "add_edge") => (nodes' = nodes /\ map' = map)]_vars

\* ---------------------------------------------------------------------
\* Properties of the a_star loop
\* ---------------------------------------------------------------------

a_star_running == call = "a_star" /\ pc = "run"

frontier_nodes(heap) == {x.node : x \in BagToSet(heap)}

\* The node a step recorded in dist_map and expanded, if it did.
expanded_by_step ==
    {n \in DOMAIN dist_map' : n \notin DOMAIN dist_map \/ dist_map'[n] # dist_map[n]}

\* C15: while a node is expanded, an outgoing edge without a weight is the
\* only one skipped: every traversable edge of the node to a target without
\* a dist_map entry leaves an entry for that target on the frontier,
\* wherever the untraversable edge comes in the iteration order.
C15_OnlyDanglingEdgeSkipped ==
    [][(a_star_running /\ pc' = "run") =>
        \A n \in expanded_by_step :
            \A x \in Universe :
                (has_edge(n, x) /\ x \notin DOMAIN dist_map')
                    => \E e \in BagToSet(frontier') :
                          e.node = x /\ e.parent = Some(n)]_vars

\* The frontier entries a step pushed.
pushed_by_step == BagToSet(frontier' (-) frontier)

\* C16: a loop iteration records a popped entry only for a node without a
\* dist_map entry or with a strictly lower path cost than the recorded one;
\* otherwise dist_map is unchanged and nothing is pushed.  So no entry of
\* dist_map is removed, the recorded g_cost of a node never increases, and
\* no entry is pushed for a node that has a dist_map entry.
C16_LazyDeletion ==
    [][(a_star_running /\ pc' = "run") =>
        /\ \A n \in DOMAIN dist_map :
              /\ n \in DOMAIN dist_map'
              /\ dist_map'[n].g_cost <= dist_map[n].g_cost
              /\ dist_map'[n] # dist_map[n]
                    => dist_map'[n].g_cost < dist_map[n].g_cost
        /\ Cardinality(expanded_by_step) <= 1
        /\ expanded_by_step = {} => pushed_by_step = {}
        /\ \A e \in pushed_by_step :
              /\ e.node \notin DOMAIN dist_map'
              /\ e.parent # None
              /\ e.parent[1] \in expanded_by_step]_vars

\* A run that discarded a popped entry: on a grid five recorded cells hold a
\* 2x2 block, a cell of which was pushed from two neighbours.
C16_Witness ==
    /\ call = "a_star"
    /\ kind = "grid"
    /\ pc = "done"
    /\ result = None
    /\ Cardinality(DOMAIN dist_map) >= 5

\* The nodes met by following the parent links of `entry` through dist_map,
\* or a failure: a link to a missing key, or a node met twice.
RECURSIVE parent_chain(_, _)
parent_chain(entry, seen) ==
    IF entry.node \in seen THEN [ok |-> FALSE, last |-> entry.node]
    ELSE IF entry.parent = None THEN [ok |-> TRUE, last |-> entry.node]
    ELSE IF entry.parent[1] \notin DOMAIN dist_map
    THEN [ok |-> FALSE, last |-> entry.node]
    ELSE parent_chain(dist_map[entry.parent[1]], seen \cup {entry.node})

a_star_entries == BagToSet(frontier) \cup Range(dist_map)

\* C19: at every step of a_star the parent of every frontier entry and of
\* every dist_map entry is a key of dist_map, and the parent links from any
\* entry visit no node twice and end at the entry of the start node, the
\* only one without a parent; the path reconstruction therefore never looks
\* up a missing key and always ends.
C19_ParentLinksWellFounded ==
    (call = "a_star") =>
        /\ \A e \in a_star_entries :
              /\ e.parent # None => e.parent[1] \in DOMAIN dist_map
              /\ e.parent = None <=> e.node = start
              /\ parent_chain(e, {}).ok
              /\ parent_chain(e, {}).last = start
        /\ \A n \in DOMAIN dist_map : dist_map[n].node = n
        /\ pc \notin {"diverge"}
        /\ (pc = "panic") => (kind = "map" /\ ~(no_dangling_arc /\ start \in DOMAIN map))

C19_Witness ==
    /\ a_star_running
    /\ Cardinality(DOMAIN dist_map) >= 3
    /\ \E e \in BagToSet(frontier) :
          /\ e.parent # None
          /\ dist_map[e.parent[1]].parent # None
          /\ dist_map[dist_map[e.parent[1]].parent[1]].parent # None

\* ---------------------------------------------------------------------
\* Termination
\* ---------------------------------------------------------------------

algorithm_running == call \in {"a_star", "bfs", "prims"} /\ pc = "run"

\* The graph gives the call no lookup of a missing node to fail on: a_star
\* looks up every node it pops, the others only their start node.
lookups_succeed ==
    CASE call = "a_star" ->
            kind = "map" => (no_dangling_arc /\ start \in DOMAIN map)
      [] call \in {"bfs", "prims"} -> start \in DOMAIN map
      [] OTHER -> FALSE

\* Every call ends, cycles, self-loops and zero-weight edges included: it
\* returns, or it fails on a lookup of a missing node; the loop never runs
\* for ever and the path reconstruction never cycles.
calls_end ==
    algorithm_running ~> (pc = "done" \/ (pc = "panic" /\ ~lookups_succeed))

\* C14: on every finite graph every call of a_star, prims and
\* breadth_first_search from a node of the graph eventually returns: a_star a path or the absent
\* result, prims and breadth_first_search when the frontier is empty or the
\* visitor stops the search.
C14_Terminates ==
    (algorithm_running /\ (kind = "map" => start \in DOMAIN map)) ~> (pc = "done")

\* ---------------------------------------------------------------------
\* Monotonicity of a_star in the arc weights
\* ---------------------------------------------------------------------

\* The graph has the nodes and arcs of the earlier call's graph, and no arc
\* weighs less than it did.
weights_not_lowered ==
    /\ map = earlier[1].map
    /\ DOMAIN stored_arcs(nodes, map)
          = DOMAIN stored_arcs(earlier[1].nodes, earlier[1].map)
    /\ \A p \in DOMAIN stored_arcs(nodes, map) :
          stored_arcs(nodes, map)[p]
              >= stored_arcs(earlier[1].nodes, earlier[1].map)[p]

\* The sum of the arc weights of a path (given end-first) in a storage.
RECURSIVE stored_path_cost(_, _, _)
stored_path_cost(ns, m, p) ==
    IF Len(p) < 2 THEN 0
    ELSE ns[m[p[2]] + 1].outgoing[p[1]] + stored_path_cost(ns, m, Tail(p))

\* The total weight of the earlier call's path in the earlier call's graph.
earlier_cost ==
    stored_path_cost(earlier[1].nodes, earlier[1].map, earlier[1].path)

\* C17: when a_star with the zero heuristic returns a path on a graph and,
\* for the same start and end, on a graph with the same nodes and arcs whose
\* weights are greater than or equal to the first's, the total weight of the
\* second path is greater than or equal to that of the first.
C17_CostMonotoneInWeights ==
    (earlier # None /\ a_star_returned /\ result # None
        /\ heur = ZeroHeuristic
        /\ start = earlier[1].start /\ end = earlier[1].end
        /\ weights_not_lowered)
        => path_cost(result[1]) >= earlier_cost

\* The second call returned a costlier path than the first, on raised weights.
C17_Witness ==
    /\ earlier # None
    /\ a_star_returned
    /\ result # None
    /\ weights_not_lowered
    /\ raised_arcs # {}
    /\ Len(result[1]) >= 2
    /\ path_cost(result[1]) > earlier_cost
    /\ result[1] # earlier[1].path

====
